---- MODULE Spec2Model ----
(***************************************************************************)
(* Model of otbr::Ncp::ControllerOpenThread (src/agent/ncp_openthread.cpp):*)
(* the adapter that binds the border-router agent's poll loop to the       *)
(* OpenThread library.  The state is the adapter's fields (mInstance,      *)
(* mThreadHelper, mTimers, mTriedAttach), the process-wide sReset flag,    *)
(* the steady clock, and the position of the single thread of control      *)
(* (pc).  Observation variables record what an operation handed to its     *)
(* collaborators (EventEmitter::Emit, ThreadHelper, otSysMainloopUpdate).  *)
(***************************************************************************)
EXTENDS Integers, Sequences, FiniteSets, TLC

\* ------------------------------------------------------------------ bounds
MaxPosts     == 3      \* PostTimerTask calls in one behaviour
MaxTicks     == 1      \* clock advances in one behaviour
ClockStep    == 2500    \* nanoseconds the steady clock advances per tick
MaxSec       == 1      \* largest tv_sec of a caller's timeout
MaxUsec      == 2      \* largest tv_usec of a caller's timeout
MaxInstances == 2      \* otSysInit calls in one behaviour

\* ------------------------------------------------------- program constants
kUsPerSecond == 1000000   \* ToTimeVal
kNsPerUs     == 1000      \* steady_clock::duration -> microseconds

VARIABLES
    pc,            \* position of the thread of control
    clock,         \* steady_clock::now(), in nanoseconds
    mInstance,     \* instance handle held by the adapter (0: never assigned)
    mThreadHelper, \* instance the held ThreadHelper is bound to (0: no helper)
    mTimers,       \* std::multimap<time_point, task>, as a sorted sequence
    mTriedAttach,
    sReset,
    liveInstance,  \* instance the platform currently has initialised (0: none)
    callbackInst,  \* instance the state-changed callback is registered on
    nInstances,    \* instances created so far by otSysInit
    nPosts,        \* entries posted so far (ids of timer entries)
    pNow,          \* `now` sampled by the running Process iteration
    firing,        \* id of the entry whose callback is running (0: none)
    fireLog,       \* entries invoked by the current/last Process iteration (an
                   \* entry invoked again right away is listed once)
    timesInvoked,  \* id -> invocations of that entry's callback (0, 1, 2 or more)
    erased,        \* ids of the entries erased from mTimers so far
    lastErased,    \* [id, fired]: the entry last erased and the one just invoked
    cbPosted,      \* [n, earlier]: timers posted from callbacks of the current
                   \* iteration, and whether one was due before its poster
    finalizeCalls, \* handles passed to otInstanceFinalize, in order
    nDeinits,      \* otSysDeinit calls so far
    resetCalled,   \* otPlatReset was called since the last Reset completed
    resumeLog,     \* [tries, ok, afterOk]: iterations that called TryResumeNetwork
                   \* (0, 1, 2 or more), one returned OT_ERROR_NONE, one was made after that
    stepLog,       \* the library and callback steps of the current Process iteration, in order
    resetReq,      \* otPlatReset calls not yet followed by a whole Reset (see otPlatReset, ResetClear)
    mConfig,       \* the otPlatformConfig built by the constructor
    obs            \* what the last operation did (see NoObs)

vars == <<pc, clock, mInstance, mThreadHelper, mTimers, mTriedAttach, sReset,
          liveInstance, callbackInst, nInstances, nPosts, pNow, firing,
          fireLog, timesInvoked, erased, lastErased, cbPosted, finalizeCalls,
          nDeinits, resetCalled, resumeLog, stepLog, resetReq, mConfig, obs>>

timerVars == <<mTimers, nPosts, pNow, firing, fireLog, timesInvoked, erased,
               lastErased, cbPosted>>
instVars  == <<mInstance, mThreadHelper, liveInstance, callbackInst, nInstances,
               finalizeCalls, nDeinits>>

\* ------------------------------------------------------------- vocabulary
TimePoints == {k * ClockStep : k \in 0..MaxTicks}

OtErrors == {"OT_ERROR_NONE", "OT_ERROR_FAILED"}

DeviceRoles == {"OT_DEVICE_ROLE_DISABLED", "OT_DEVICE_ROLE_DETACHED",
                "OT_DEVICE_ROLE_CHILD", "OT_DEVICE_ROLE_ROUTER",
                "OT_DEVICE_ROLE_LEADER", "unknown"}

ChangedFlags == {"OT_CHANGED_THREAD_NETWORK_NAME", "OT_CHANGED_THREAD_EXT_PANID",
                 "OT_CHANGED_THREAD_ROLE", "OT_CHANGED_PSKC", "other"}

ValidEvents == {"kEventExtPanId", "kEventThreadState", "kEventNetworkName",
                "kEventPSKc", "kEventThreadVersion"}
EventCodes  == ValidEvents \cup {"other"}

NoTimeVal == [tv_sec |-> 0, tv_usec |-> 0]

NoObs == [op         |-> "none",
          arg        |-> "none",     \* aEvent of RequestEvent
          flags      |-> {},         \* aFlags of HandleStateChanged
          role       |-> "none",     \* role read from the stack, if read
          result     |-> "none",     \* otSetStateChangedCallback's result
          emitted    |-> << >>,      \* EventEmitter::Emit calls, in order
          helper     |-> << >>,      \* ThreadHelper::StateChangedCallback calls
          built      |-> 0,          \* instance a ThreadHelper was built for
          config     |-> "none",     \* configuration handed to otSysInit
          asserted   |-> FALSE,      \* assert(false) was reached
          ret        |-> "none",     \* value returned
          tasklets   |-> FALSE,      \* otTaskletsArePending
          now        |-> 0,          \* `now` sampled by UpdateFdSet
          timeoutIn  |-> NoTimeVal,  \* aMainloop.mTimeout on entry
          timeoutOut |-> NoTimeVal]  \* aMainloop.mTimeout given to the library

Min(a, b) == IF a < b THEN a ELSE b

\* A history with e added, unless e is already its last element.
Logged(log, e) ==
    IF log # << >> /\ log[Len(log)] = e THEN log ELSE Append(log, e)

\* ------------------------------------------------------------ constructor
\* Arguments the host passes to the constructor.
ConstructorArgs ==
    {[aInterfaceName |-> "wpan0", aRadioFile |-> "/dev/ttyUSB0", aRadioConfig |-> "115200"],
     [aInterfaceName |-> "wpan1", aRadioFile |-> "/dev/ttyACM0", aRadioConfig |-> ""]}

\* memset(&mConfig, 0, sizeof(mConfig)); then the five assignments
Constructor(aInterfaceName, aRadioFile, aRadioConfig) ==
    [mInterfaceName |-> aInterfaceName,
     mRadioConfig   |-> aRadioConfig,
     mRadioFile     |-> aRadioFile,
     mResetRadio    |-> TRUE,
     mSpeedUpFactor |-> 1]

Init ==
    /\ pc = "constructed"
    /\ clock = 0
    /\ mInstance = 0
    /\ mThreadHelper = 0
    /\ mTimers = << >>
    /\ mTriedAttach = FALSE
    /\ sReset = FALSE
    /\ liveInstance = 0
    /\ callbackInst = 0
    /\ nInstances = 0
    /\ nPosts = 0
    /\ pNow = 0
    /\ firing = 0
    /\ fireLog = << >>
    /\ timesInvoked = [i \in 1..MaxPosts |-> 0]
    /\ erased = {}
    /\ lastErased = [id |-> 0, fired |-> 0]
    /\ cbPosted = [n |-> 0, earlier |-> FALSE]
    /\ finalizeCalls = << >>
    /\ nDeinits = 0
    /\ resetCalled = FALSE
    /\ resumeLog = [tries |-> 0, ok |-> FALSE, afterOk |-> FALSE]
    /\ stepLog = << >>
    /\ resetReq = [outside |-> FALSE, during |-> FALSE, carried |-> FALSE]
    /\ \E args \in ConstructorArgs :
          mConfig = Constructor(args.aInterfaceName, args.aRadioFile, args.aRadioConfig)
    /\ obs = NoObs

\* ------------------------------------------------------------------- Init()
\* VerifyOrExit(result == OT_ERROR_NONE, error = OTBR_ERROR_OPENTHREAD)
InitError(result) ==
    IF result = "OT_ERROR_NONE" THEN "OTBR_ERROR_NONE" ELSE "OTBR_ERROR_OPENTHREAD"

\* Mutant of InitHelper: the ThreadHelper is constructed before the result is
\* checked.
InitHelperUnchecked(result, inst) == inst

\* The ThreadHelper is constructed after the VerifyOrExit, for the new instance.
InitHelper(result, inst) ==
    IF result = "OT_ERROR_NONE" THEN inst ELSE 0

\* The body of Init(), with the result of otSetStateChangedCallback as input.
InitBody(result) ==
    LET inst  == nInstances + 1                \* otSysInit(&mConfig)
        built == InitHelper(result, inst)
    IN  /\ nInstances' = inst
        /\ mInstance' = inst
        /\ liveInstance' = inst
        /\ callbackInst' = IF result = "OT_ERROR_NONE" THEN inst ELSE callbackInst
        /\ mThreadHelper' = IF built # 0 THEN built ELSE mThreadHelper
        /\ obs' = [NoObs EXCEPT !.op = "Init", !.result = result, !.config = mConfig,
                                !.built = built, !.ret = InitError(result)]

\* Init() called by the host at startup; a failure aborts startup.
ControllerInit ==
    /\ pc = "constructed"
    /\ nInstances < MaxInstances
    /\ \E result \in OtErrors :
          /\ InitBody(result)
          /\ pc' = IF InitError(result) = "OTBR_ERROR_NONE" THEN "idle" ELSE "init_failed"
    /\ UNCHANGED <<mConfig, resetReq, stepLog, resumeLog, clock, mTriedAttach, sReset, timerVars, finalizeCalls, nDeinits,
                   resetCalled>>

\* ------------------------------------------------------------------ Reset()
\* Mutant of ResetTeardown: the flag is cleared when Reset starts.
ResetTeardownClearsFlag ==
    /\ pc = "idle"
    /\ nInstances < MaxInstances
    /\ finalizeCalls' = Append(finalizeCalls, mInstance)
    /\ nDeinits' = nDeinits + 1
    /\ liveInstance' = 0
    /\ sReset' = FALSE
    /\ pc' = "reset_init"
    /\ obs' = [NoObs EXCEPT !.op = "Reset"]
    /\ UNCHANGED <<mConfig, resetReq, stepLog, resumeLog, clock, mInstance, mThreadHelper, callbackInst, nInstances,
                   mTriedAttach, timerVars, resetCalled>>

\* otInstanceFinalize(mInstance); otSysDeinit();
ResetTeardown ==
    /\ pc = "idle"
    /\ nInstances < MaxInstances
    /\ finalizeCalls' = Append(finalizeCalls, mInstance)
    /\ nDeinits' = nDeinits + 1
    /\ liveInstance' = 0
    /\ pc' = "reset_init"
    /\ obs' = [NoObs EXCEPT !.op = "Reset"]
    /\ UNCHANGED <<mConfig, resetReq, stepLog, resumeLog, clock, mInstance, mThreadHelper, callbackInst, nInstances,
                   mTriedAttach, sReset, timerVars, resetCalled>>

\* Mutant of ResetInit: the re-initialisation also forgets that the resume
\* was tried.
ResetInitForgetsResume ==
    /\ pc = "reset_init"
    /\ \E result \in OtErrors : InitBody(result)
    /\ mTriedAttach' = FALSE
    /\ pc' = "reset_clear"
    /\ UNCHANGED <<mConfig, resetReq, stepLog, resumeLog, clock, sReset, timerVars,
                   finalizeCalls, nDeinits, resetCalled>>

\* Init(); (its result is dropped)
ResetInit ==
    /\ pc = "reset_init"
    /\ \E result \in OtErrors : InitBody(result)
    /\ pc' = "reset_clear"
    /\ UNCHANGED <<mConfig, resetReq, stepLog, resumeLog, clock, mTriedAttach, sReset, timerVars, finalizeCalls, nDeinits,
                   resetCalled>>

\* Mutant of ResetClear: Reset returns without clearing the flag.
ResetClearKeepsFlag ==
    /\ pc = "reset_clear"
    /\ resetCalled' = FALSE
    /\ resetReq' = [outside |-> FALSE, during |-> FALSE, carried |-> resetReq.during]
    /\ pc' = "idle"
    /\ obs' = [NoObs EXCEPT !.op = "Reset", !.ret = "void"]
    /\ UNCHANGED <<mConfig, sReset, stepLog, resumeLog, clock, mTriedAttach, timerVars, instVars>>

\* sReset = false; and Reset returns
ResetClear ==
    /\ pc = "reset_clear"
    /\ sReset' = FALSE
    /\ resetCalled' = FALSE
    /\ resetReq' = [outside |-> FALSE, during |-> FALSE, carried |-> resetReq.during]
    /\ pc' = "idle"
    /\ obs' = [NoObs EXCEPT !.op = "Reset", !.ret = "void"]
    /\ UNCHANGED <<mConfig, stepLog, resumeLog, clock, mTriedAttach, timerVars, instVars>>

\* IsResetRequested()
IsResetRequested ==
    /\ pc = "idle"
    /\ obs' = [NoObs EXCEPT !.op = "IsResetRequested",
                            !.ret = IF sReset THEN "true" ELSE "false"]
    /\ UNCHANGED <<mConfig, resetReq, stepLog, resumeLog, pc, clock, mTriedAttach, sReset, timerVars, instVars, resetCalled>>

\* otPlatReset(aInstance): the platform hook the library calls.
otPlatReset ==
    /\ pc \notin {"destroyed", "aborted"}
    /\ sReset' = TRUE
    /\ resetCalled' = TRUE
    /\ resetReq' = IF pc \in {"reset_init", "reset_clear"}
                   THEN [resetReq EXCEPT !.during = TRUE]
                   ELSE [resetReq EXCEPT !.outside = TRUE]
    /\ obs' = [NoObs EXCEPT !.op = "otPlatReset", !.ret = "void"]
    /\ UNCHANGED <<mConfig, stepLog, resumeLog, pc, clock, mTriedAttach, timerVars, instVars>>

\* ~ControllerOpenThread(): otInstanceFinalize(mInstance); otSysDeinit();
Destroy ==
    /\ pc \in {"constructed", "init_failed", "idle"}
    /\ finalizeCalls' = Append(finalizeCalls, mInstance)
    /\ nDeinits' = nDeinits + 1
    /\ liveInstance' = 0
    /\ pc' = "destroyed"
    /\ obs' = [NoObs EXCEPT !.op = "Destroy"]
    /\ UNCHANGED <<mConfig, resetReq, stepLog, resumeLog, clock, mInstance, mThreadHelper, callbackInst, nInstances,
                   mTriedAttach, sReset, timerVars, resetCalled>>

\* The steady clock advances.
Tick ==
    /\ pc \notin {"destroyed", "aborted"}
    /\ clock < MaxTicks * ClockStep
    /\ clock' = clock + ClockStep
    /\ UNCHANGED <<mConfig, resetReq, stepLog, resumeLog, pc, mTriedAttach, sReset, timerVars, instVars, resetCalled, obs>>

\* ------------------------------------------------------------ timer queue
\* mTimers.insert({aTimePoint, aTask}): std::multimap keeps the keys ordered
\* and puts a new element after the elements with an equal key.
RECURSIVE Insert(_, _)
Insert(q, e) ==
    IF q = << >> THEN <<e>>
    ELSE IF e.due < Head(q).due THEN <<e>> \o q
    ELSE <<Head(q)>> \o Insert(Tail(q), e)

\* PostTimerTask(aTimePoint, aTask), called by the host between iterations or
\* by the timer callback that Process is running.
PostTimerTask ==
    /\ pc \in {"idle", "callback"}
    /\ nPosts < MaxPosts
    /\ \E aTimePoint \in TimePoints :
          /\ mTimers' = Insert(mTimers, [due |-> aTimePoint, id |-> nPosts + 1])
          /\ cbPosted' =
                IF pc = "callback"
                THEN [n       |-> cbPosted.n + 1,
                      earlier |-> cbPosted.earlier
                                  \/ aTimePoint < fireLog[Len(fireLog)].due]
                ELSE cbPosted
    /\ nPosts' = nPosts + 1
    /\ obs' = IF pc = "idle" THEN [NoObs EXCEPT !.op = "PostTimerTask"] ELSE obs
    /\ UNCHANGED <<mConfig, resetReq, stepLog, resumeLog, pc, clock, mTriedAttach, sReset, pNow, firing, fireLog,
                   timesInvoked, erased, lastErased, instVars, resetCalled>>

\* PostTimerTask(aTimePoint, aTask) called by the running timer callback with
\* its own task: the callback re-posts itself.  (Taken here only while its
\* entry is the only one queued, which keeps the histories finite.)
RepostTimerTask ==
    /\ pc = "callback"
    /\ Len(mTimers) = 1
    /\ mTimers[1].id = firing
    /\ \E aTimePoint \in TimePoints :
          /\ mTimers' = Insert(mTimers, [due |-> aTimePoint, id |-> firing])
          /\ cbPosted' = [n       |-> Min(cbPosted.n + 1, MaxPosts),
                          earlier |-> cbPosted.earlier
                                      \/ aTimePoint < fireLog[Len(fireLog)].due]
    /\ UNCHANGED <<mConfig, resetReq, stepLog, resumeLog, pc, clock, mTriedAttach, sReset, nPosts, pNow, firing,
                   fireLog, timesInvoked, erased, lastErased, instVars, resetCalled,
                   obs>>

\* ---------------------------------------------------------------- Process()
\* auto now = steady_clock::now(); then otTaskletsProcess(mInstance) is entered
ProcessStart ==
    /\ pc = "idle"
    /\ pNow' = clock
    /\ fireLog' = << >>
    /\ cbPosted' = [n |-> 0, earlier |-> FALSE]
    /\ pc' = "tasklets"
    /\ stepLog' = <<"otTaskletsProcess">>
    /\ obs' = [NoObs EXCEPT !.op = "Process"]
    /\ UNCHANGED <<mConfig, resetReq, resumeLog, clock, mTriedAttach, sReset, mTimers, nPosts, firing,
                   timesInvoked, erased, lastErased, instVars, resetCalled>>

\* otTaskletsProcess returns; otSysMainloopProcess(mInstance, &aMainloop) is entered
ProcessMainloop ==
    /\ pc = "tasklets"
    /\ pc' = "mainloop"
    /\ stepLog' = Append(stepLog, "otSysMainloopProcess")
    /\ obs' = [NoObs EXCEPT !.op = "Process"]
    /\ UNCHANGED <<mConfig, resetReq, resumeLog, clock, mTriedAttach, sReset, timerVars, instVars, resetCalled>>

\* Mutant of ProcessTimers: the timer loop is reached from the tasklet step,
\* before otSysMainloopProcess is called.
ProcessTimersBeforeMainloop ==
    /\ pc = "tasklets"
    /\ pc' = "timers"
    /\ obs' = [NoObs EXCEPT !.op = "Process"]
    /\ UNCHANGED <<mConfig, resetReq, stepLog, resumeLog, clock, mTriedAttach, sReset, timerVars, instVars, resetCalled>>

\* otSysMainloopProcess returns; the timer loop is reached
ProcessTimers ==
    /\ pc = "mainloop"
    /\ pc' = "timers"
    /\ obs' = [NoObs EXCEPT !.op = "Process"]
    /\ UNCHANGED <<mConfig, resetReq, stepLog, resumeLog, clock, mTriedAttach, sReset, timerVars, instVars, resetCalled>>

\* Mutant of TimerDue: an entry due exactly at `now` is not fired.
TimerDueStrict == mTimers # << >> /\ Head(mTimers).due < pNow

\* while (!mTimers.empty() && mTimers.begin()->first <= now)
TimerDue == mTimers # << >> /\ Head(mTimers).due <= pNow

\* Mutant of TimerFire: the entry is erased before its callback is entered.
TimerFireEraseFirst ==
    /\ pc = "timers"
    /\ mTimers # << >> /\ Head(mTimers).due <= pNow
    /\ firing' = Head(mTimers).id
    /\ fireLog' = Logged(fireLog, Head(mTimers))
    /\ stepLog' = Logged(stepLog, "timer callback")
    /\ timesInvoked' = [timesInvoked EXCEPT ![Head(mTimers).id] = Min(@ + 1, 2)]
    /\ mTimers' = Tail(mTimers)
    /\ pc' = "callback"
    /\ UNCHANGED <<mConfig, resetReq, resumeLog, clock, mTriedAttach, sReset, nPosts, pNow, erased,
                   lastErased, cbPosted, instVars, resetCalled, obs>>

\* mTimers.begin()->second(): the callback of the first entry is entered
TimerFire ==
    /\ pc = "timers"
    /\ TimerDue
    /\ firing' = Head(mTimers).id
    /\ fireLog' = Logged(fireLog, Head(mTimers))
    /\ stepLog' = Logged(stepLog, "timer callback")
    /\ timesInvoked' = [timesInvoked EXCEPT ![Head(mTimers).id] = Min(@ + 1, 2)]
    /\ pc' = "callback"
    /\ UNCHANGED <<mConfig, resetReq, resumeLog, clock, mTriedAttach, sReset, mTimers, nPosts, pNow, erased,
                   lastErased, cbPosted, instVars, resetCalled, obs>>

\* the callback returns; mTimers.erase(mTimers.begin())
TimerErase ==
    /\ pc = "callback"
    /\ mTimers' = Tail(mTimers)
    /\ erased' = erased \cup {Head(mTimers).id}
    /\ lastErased' = [id |-> Head(mTimers).id, fired |-> firing]
    /\ firing' = 0
    /\ pc' = "timers"
    /\ UNCHANGED <<mConfig, resetReq, stepLog, resumeLog, clock, mTriedAttach, sReset, nPosts, pNow, fireLog,
                   timesInvoked, cbPosted, instVars, resetCalled, obs>>

\* the loop condition fails
TimersDone ==
    /\ pc = "timers"
    /\ ~TimerDue
    /\ pc' = "resume"
    /\ UNCHANGED <<mConfig, resetReq, stepLog, resumeLog, clock, mTriedAttach, sReset, timerVars, instVars, resetCalled, obs>>

\* Mutant of ResumeTried: the flag is set by the attempt, whatever it returned.
ResumeTriedAlways(result) == TRUE

\* mTriedAttach after an attempt: TryResumeNetwork() == OT_ERROR_NONE
ResumeTried(result) == result = "OT_ERROR_NONE"

\* if (!mTriedAttach && mThreadHelper->TryResumeNetwork() == OT_ERROR_NONE)
\*     mTriedAttach = true;   and Process returns
ProcessResume ==
    /\ pc = "resume"
    /\ \/ /\ mTriedAttach
          /\ obs' = [NoObs EXCEPT !.op = "Process", !.ret = "void"]
          /\ UNCHANGED <<mTriedAttach, resumeLog, stepLog>>
       \/ /\ ~mTriedAttach
          /\ \E result \in OtErrors :
                /\ mTriedAttach' = ResumeTried(result)
                /\ stepLog' = Append(stepLog, "TryResumeNetwork")
                /\ resumeLog' = [tries   |-> Min(resumeLog.tries + 1, 2),
                                 ok      |-> resumeLog.ok \/ result = "OT_ERROR_NONE",
                                 afterOk |-> resumeLog.afterOk \/ resumeLog.ok]
                /\ obs' = [NoObs EXCEPT !.op = "Process", !.ret = "void",
                                        !.result = result,
                                        !.helper = <<[call |-> "TryResumeNetwork",
                                                      inst |-> mThreadHelper,
                                                      flags |-> {}, after |-> 0]>>]
    /\ pc' = "idle"
    /\ UNCHANGED <<mConfig, resetReq, clock, sReset, timerVars, instVars, resetCalled>>

\* ------------------------------------------------------ state-change relay
Event(kind, value) == [kind |-> kind, value |-> value]

\* switch (otThreadGetDeviceRole(mInstance)) in HandleStateChanged
HandleStateChangedAttached(role) ==
    CASE role = "OT_DEVICE_ROLE_CHILD"  -> TRUE
      [] role = "OT_DEVICE_ROLE_ROUTER" -> TRUE
      [] role = "OT_DEVICE_ROLE_LEADER" -> TRUE
      [] OTHER                          -> FALSE

\* Mutant of HandleStateChangedEmits: the PSKc flag is relayed as well.
HandleStateChangedEmitsPskc(aFlags, role) ==
    (IF "OT_CHANGED_THREAD_NETWORK_NAME" \in aFlags
        THEN <<Event("kEventNetworkName", "otThreadGetNetworkName")>> ELSE << >>)
    \o
    (IF "OT_CHANGED_THREAD_EXT_PANID" \in aFlags
        THEN <<Event("kEventExtPanId", "otThreadGetExtendedPanId")>> ELSE << >>)
    \o
    (IF "OT_CHANGED_THREAD_ROLE" \in aFlags
        THEN <<Event("kEventThreadState",
                     IF HandleStateChangedAttached(role) THEN "attached"
                                                         ELSE "not attached")>>
        ELSE << >>)
    \o
    (IF "OT_CHANGED_PSKC" \in aFlags
        THEN <<Event("kEventPSKc", "otThreadGetPskc")>> ELSE << >>)

\* The EventEmitter::Emit calls of HandleStateChanged(aFlags), in order.
HandleStateChangedEmits(aFlags, role) ==
    (IF "OT_CHANGED_THREAD_NETWORK_NAME" \in aFlags
        THEN <<Event("kEventNetworkName", "otThreadGetNetworkName")>> ELSE << >>)
    \o
    (IF "OT_CHANGED_THREAD_EXT_PANID" \in aFlags
        THEN <<Event("kEventExtPanId", "otThreadGetExtendedPanId")>> ELSE << >>)
    \o
    (IF "OT_CHANGED_THREAD_ROLE" \in aFlags
        THEN <<Event("kEventThreadState",
                     IF HandleStateChangedAttached(role) THEN "attached"
                                                         ELSE "not attached")>>
        ELSE << >>)

\* Mutant of HandleStateChangedForward: the bitmask is forwarded only when an
\* event was emitted.
HandleStateChangedForwardIfEmitted(aFlags, before) ==
    IF before = 0 THEN << >>
    ELSE <<[call |-> "StateChangedCallback", inst |-> mThreadHelper,
            flags |-> aFlags, after |-> before]>>

\* mThreadHelper->StateChangedCallback(aFlags), after `before` Emit calls
HandleStateChangedForward(aFlags, before) ==
    <<[call |-> "StateChangedCallback", inst |-> mThreadHelper,
       flags |-> aFlags, after |-> before]>>

\* HandleStateChanged(aFlags): called by the library, from inside its tasklet or
\* mainloop processing, on the instance the callback is registered on.
HandleStateChanged ==
    /\ pc \in {"tasklets", "mainloop"}
    /\ callbackInst # 0
    /\ callbackInst = liveInstance
    /\ \E aFlags \in SUBSET ChangedFlags :
       \E role \in IF "OT_CHANGED_THREAD_ROLE" \in aFlags THEN DeviceRoles ELSE {"none"} :
          LET emits == HandleStateChangedEmits(aFlags, role)
          IN  obs' = [NoObs EXCEPT !.op = "HandleStateChanged",
                                   !.flags = aFlags,
                                   !.role = role,
                                   !.emitted = emits,
                                   !.helper = HandleStateChangedForward(aFlags, Len(emits)),
                                   !.ret = "void"]
    /\ UNCHANGED <<mConfig, resetReq, stepLog, resumeLog, pc, clock, mTriedAttach, sReset, timerVars, instVars, resetCalled>>

\* ------------------------------------------------------------ RequestEvent
\* Mutant of RequestEventAttached: the leader case is missing.
RequestEventAttachedNoLeader(role) ==
    CASE role = "OT_DEVICE_ROLE_CHILD"  -> TRUE
      [] role = "OT_DEVICE_ROLE_ROUTER" -> TRUE
      [] OTHER                          -> FALSE

\* switch (otThreadGetDeviceRole(mInstance)) in RequestEvent
RequestEventAttached(role) ==
    CASE role = "OT_DEVICE_ROLE_CHILD"  -> TRUE
      [] role = "OT_DEVICE_ROLE_ROUTER" -> TRUE
      [] role = "OT_DEVICE_ROLE_LEADER" -> TRUE
      [] OTHER                          -> FALSE

\* Mutant of RequestEventEmits: the kEventPSKc case lacks its break and falls
\* through to kEventThreadVersion.
RequestEventEmitsFallThrough(aEvent, role) ==
    CASE aEvent = "kEventExtPanId" ->
            <<Event("kEventExtPanId", "otThreadGetExtendedPanId")>>
      [] aEvent = "kEventThreadState" ->
            <<Event("kEventThreadState",
                    IF role \in {"OT_DEVICE_ROLE_CHILD", "OT_DEVICE_ROLE_ROUTER",
                                 "OT_DEVICE_ROLE_LEADER"}
                    THEN "attached" ELSE "not attached")>>
      [] aEvent = "kEventNetworkName" ->
            <<Event("kEventNetworkName", "otThreadGetNetworkName")>>
      [] aEvent = "kEventPSKc" ->
            <<Event("kEventPSKc", "otThreadGetPskc"),
              Event("kEventThreadVersion", "otThreadGetVersion")>>
      [] aEvent = "kEventThreadVersion" ->
            <<Event("kEventThreadVersion", "otThreadGetVersion")>>
      [] OTHER -> << >>

\* The EventEmitter::Emit calls of RequestEvent(aEvent): switch (aEvent)
RequestEventEmits(aEvent, role) ==
    CASE aEvent = "kEventExtPanId" ->
            <<Event("kEventExtPanId", "otThreadGetExtendedPanId")>>
      [] aEvent = "kEventThreadState" ->
            <<Event("kEventThreadState",
                    IF RequestEventAttached(role) THEN "attached" ELSE "not attached")>>
      [] aEvent = "kEventNetworkName" ->
            <<Event("kEventNetworkName", "otThreadGetNetworkName")>>
      [] aEvent = "kEventPSKc" ->
            <<Event("kEventPSKc", "otThreadGetPskc")>>
      [] aEvent = "kEventThreadVersion" ->
            <<Event("kEventThreadVersion", "otThreadGetVersion")>>
      [] OTHER -> << >>

\* default: assert(false)
RequestEventAsserts(aEvent) ==
    aEvent \notin {"kEventExtPanId", "kEventThreadState", "kEventNetworkName",
                   "kEventPSKc", "kEventThreadVersion"}

\* RequestEvent(aEvent).  assert(false) aborts the process; a build with
\* NDEBUG compiles it out and the call returns ret.
RequestEvent ==
    /\ pc = "idle"
    /\ \E aEvent \in EventCodes :
       \E role \in IF aEvent = "kEventThreadState" THEN DeviceRoles ELSE {"none"} :
       \E ndebug \in IF RequestEventAsserts(aEvent) THEN BOOLEAN ELSE {TRUE} :
          LET aborts == RequestEventAsserts(aEvent) /\ ~ndebug
          IN  /\ obs' = [NoObs EXCEPT !.op = "RequestEvent",
                                      !.arg = aEvent,
                                      !.role = role,
                                      !.emitted = RequestEventEmits(aEvent, role),
                                      !.asserted = RequestEventAsserts(aEvent),
                                      !.ret = IF aborts THEN "none"
                                                        ELSE "OTBR_ERROR_NONE"]
              /\ pc' = IF aborts THEN "aborted" ELSE "idle"
    /\ UNCHANGED <<mConfig, resetReq, stepLog, resumeLog, clock, mTriedAttach, sReset, timerVars, instVars, resetCalled>>

\* ------------------------------------------------------------- UpdateFdSet
\* microseconds(tv_usec) + seconds(tv_sec)
FromTimeVal(tv) == tv.tv_usec + tv.tv_sec * kUsPerSecond

\* ToTimeVal(aTime)
ToTimeVal(aTime) ==
    [tv_sec |-> aTime \div kUsPerSecond, tv_usec |-> aTime % kUsPerSecond]

\* duration_cast<microseconds>(d) of a non-negative steady_clock duration
DurationCastUs(d) == d \div kNsPerUs

\* Mutant of UpdateFdSetTimeout: the earliest timer replaces the caller's
\* timeout instead of being merged with it.
UpdateFdSetTimeoutNoMin(timeout, now, taskletsPending) ==
    IF taskletsPending THEN 0
    ELSE IF mTimers # << >>
         THEN IF Head(mTimers).due < now
              THEN 0
              ELSE DurationCastUs(Head(mTimers).due - now)
         ELSE timeout

\* The timeout UpdateFdSet computes, in microseconds.
UpdateFdSetTimeout(timeout, now, taskletsPending) ==
    IF taskletsPending THEN 0
    ELSE IF mTimers # << >>
         THEN IF Head(mTimers).due < now
              THEN 0
              ELSE Min(timeout, DurationCastUs(Head(mTimers).due - now))
         ELSE timeout

\* UpdateFdSet(aMainloop); otSysMainloopUpdate receives timeoutOut.
UpdateFdSet ==
    /\ pc = "idle"
    /\ \E sec \in 0..MaxSec, usec \in 0..MaxUsec, taskletsPending \in BOOLEAN :
          LET tv == [tv_sec |-> sec, tv_usec |-> usec]
          IN  obs' = [NoObs EXCEPT
                         !.op = "UpdateFdSet",
                         !.tasklets = taskletsPending,
                         !.now = clock,
                         !.timeoutIn = tv,
                         !.timeoutOut = ToTimeVal(UpdateFdSetTimeout(
                                            FromTimeVal(tv), clock, taskletsPending)),
                         !.ret = "void"]
    /\ UNCHANGED <<mConfig, resetReq, stepLog, resumeLog, pc, clock, mTriedAttach, sReset, timerVars, instVars, resetCalled>>

\* ------------------------------------------------------------ specification
Next ==
    \/ ControllerInit
    \/ ResetTeardown
    \/ ResetInit
    \/ ResetClear
    \/ IsResetRequested
    \/ otPlatReset
    \/ Destroy
    \/ Tick
    \/ PostTimerTask
    \/ RepostTimerTask
    \/ ProcessStart
    \/ ProcessMainloop
    \/ ProcessTimers
    \/ TimerFire
    \/ TimerErase
    \/ TimersDone
    \/ ProcessResume
    \/ HandleStateChanged
    \/ RequestEvent
    \/ UpdateFdSet

Spec == Init /\ [][Next]_vars

\* The timer queue and the poll loop: PostTimerTask and Process after a
\* successful Init.  The operations left out do not write mTimers or the clock.
NextTimers ==
    \/ ControllerInit
    \/ Tick
    \/ PostTimerTask
    \/ ProcessStart
    \/ ProcessMainloop
    \/ ProcessTimers
    \/ TimerFire
    \/ TimerErase
    \/ TimersDone
    \/ ProcessResume

SpecTimers == Init /\ [][NextTimers]_vars

\* The timeout computation: UpdateFdSet over every queue PostTimerTask can
\* build and every clock value.  Process only removes entries from the queue,
\* so it adds no queue contents that PostTimerTask alone does not reach.
NextFdSet ==
    \/ ControllerInit
    \/ Tick
    \/ PostTimerTask
    \/ UpdateFdSet

SpecFdSet == Init /\ [][NextFdSet]_vars

\* The lifecycle, the reset flag and the event relay, with an empty timer
\* queue: the operations left out (PostTimerTask, the firing of timers, the
\* clock, UpdateFdSet) neither read nor write what these operations use.
NextEvents ==
    \/ ControllerInit
    \/ ResetTeardown
    \/ ResetInit
    \/ ResetClear
    \/ IsResetRequested
    \/ otPlatReset
    \/ Destroy
    \/ ProcessStart
    \/ ProcessMainloop
    \/ ProcessTimers
    \/ TimersDone
    \/ ProcessResume
    \/ HandleStateChanged
    \/ RequestEvent

SpecEvents == Init /\ [][NextEvents]_vars

\* The poll loop with timer callbacks that may post their own task again.  The
\* thread that is inside Process keeps running: each step of Process that is
\* enabled is eventually taken, and a callback that was entered returns.
NextLoop ==
    \/ ControllerInit
    \/ Tick
    \/ PostTimerTask
    \/ RepostTimerTask
    \/ ProcessStart
    \/ ProcessMainloop
    \/ ProcessTimers
    \/ TimerFire
    \/ TimerErase
    \/ TimersDone
    \/ ProcessResume

SpecLoop ==
    /\ Init
    /\ [][NextLoop]_vars
    /\ WF_vars(ProcessMainloop)
    /\ WF_vars(ProcessTimers)
    /\ WF_vars(TimerFire)
    /\ WF_vars(TimerErase)
    /\ WF_vars(TimersDone)
    /\ WF_vars(ProcessResume)

\* The timer queue under a host loop that keeps running: the clock keeps
\* advancing (up to the last time point of the model), the host starts a new
\* Process iteration whenever it is idle, and an iteration that was started
\* keeps taking its steps.
SpecHost ==
    /\ Init
    /\ [][NextTimers]_vars
    /\ WF_vars(Tick)
    /\ WF_vars(ProcessStart)
    /\ WF_vars(ProcessMainloop)
    /\ WF_vars(ProcessTimers)
    /\ WF_vars(TimerFire)
    /\ WF_vars(TimerErase)
    /\ WF_vars(TimersDone)
    /\ WF_vars(ProcessResume)

\* ------------------------------------------------------------------ helpers
TimerIds == {mTimers[i].id : i \in 1..Len(mTimers)}

EmittedKinds == {obs.emitted[i].kind : i \in 1..Len(obs.emitted)}

AttachedRoles == {"OT_DEVICE_ROLE_CHILD", "OT_DEVICE_ROLE_ROUTER",
                  "OT_DEVICE_ROLE_LEADER"}

\* ------------------------------------------------------------------- claims

\* C1: every queue entry is removed only after its own callback was invoked,
\* no entry's callback is invoked more than once, and the entry Process
\* erases is the entry whose callback it just invoked.
EntryErasedIsEntryInvoked ==
    /\ \A id \in 1..MaxPosts : timesInvoked[id] <= 1
    /\ \A id \in erased : timesInvoked[id] >= 1
    /\ lastErased.id = lastErased.fired

\* C2 (as stated): while a timer callback runs, its own entry is no longer in
\* the timer queue (the entry is removed before the invocation).
EntryRemovedBeforeInvocation ==
    pc = "callback" => firing \notin TimerIds

\* C2 (amended): while a timer callback runs, its own entry is still in the
\* timer queue; Process erases only after the callback has returned.
EntryQueuedWhileCallbackRuns ==
    pc = "callback" => firing \in TimerIds

\* C2 witness: a callback is running with another entry queued besides its own.
CallbackRunningWitness ==
    pc = "callback" /\ firing # 0 /\ Len(mTimers) >= 2

\* C3 (as stated): an iteration invokes only entries due at or before its
\* `now`, in non-decreasing due-time order, and leaves no entry due at or
\* before `now`, also when callbacks post timers.
ProcessFiresInDueOrder ==
    /\ \A i \in 1..Len(fireLog) : fireLog[i].due <= pNow
    /\ \A i, j \in 1..Len(fireLog) : i < j => fireLog[i].due <= fireLog[j].due
    /\ pc = "resume" => \A k \in 1..Len(mTimers) : mTimers[k].due > pNow

\* C3 (amended): as stated, but the invocations are in non-decreasing due-time
\* order only as long as no callback of the iteration has posted a timer due
\* earlier than the entry it was fired for.
ProcessFiresDueEntries ==
    /\ \A i \in 1..Len(fireLog) : fireLog[i].due <= pNow
    /\ ~cbPosted.earlier =>
          \A i, j \in 1..Len(fireLog) : i < j => fireLog[i].due <= fireLog[j].due
    /\ pc = "resume" => \A k \in 1..Len(mTimers) : mTimers[k].due > pNow

\* C3 witness: an iteration has fired two entries, a callback posted a timer
\* (none due earlier than its poster), and the loop has ended.
ProcessFiredWitness ==
    /\ pc = "resume"
    /\ Len(fireLog) >= 2
    /\ cbPosted.n >= 1
    /\ ~cbPosted.earlier

\* C4: the timeout UpdateFdSet hands to otSysMainloopUpdate is the minimum of
\* zero if tasklets are pending, the time until the earliest timer (zero if it
\* is due), and the caller's timeout; so it exceeds neither the time remaining
\* until the earliest timer nor the caller's timeout.
UpdateFdSetTimeoutIsMinimum ==
    obs.op = "UpdateFdSet" =>
        LET out       == obs.timeoutOut.tv_sec * kUsPerSecond + obs.timeoutOut.tv_usec
            in        == obs.timeoutIn.tv_sec * kUsPerSecond + obs.timeoutIn.tv_usec
            remaining == IF Head(mTimers).due <= obs.now
                         THEN 0 ELSE Head(mTimers).due - obs.now
            cands     == {in}
                         \cup (IF obs.tasklets THEN {0} ELSE {})
                         \cup (IF mTimers # << >> THEN {remaining \div kNsPerUs} ELSE {})
        IN  /\ out \in cands
            /\ \A c \in cands : out <= c
            /\ out <= in
            /\ mTimers # << >> => out * kNsPerUs <= remaining
            /\ obs.timeoutOut.tv_usec \in 0..(kUsPerSecond - 1)

\* C4 witness: without tasklets pending, the earliest timer is the minimum and
\* it is neither due nor as far away as the caller's timeout.
UpdateFdSetTimerWitness ==
    /\ obs.op = "UpdateFdSet"
    /\ ~obs.tasklets
    /\ mTimers # << >>
    /\ obs.timeoutOut.tv_sec = 0
    /\ obs.timeoutOut.tv_usec > 0
    /\ obs.timeoutIn.tv_sec >= 1

\* C5: Init returns OTBR_ERROR_OPENTHREAD iff the callback registration did
\* not return OT_ERROR_NONE, and then constructs no ThreadHelper; otherwise it
\* returns OTBR_ERROR_NONE and has constructed a ThreadHelper bound to the
\* instance it created.
InitFailsIffRegistrationFails ==
    obs.op = "Init" =>
        /\ (obs.ret = "OTBR_ERROR_OPENTHREAD") <=> (obs.result # "OT_ERROR_NONE")
        /\ obs.ret = "OTBR_ERROR_OPENTHREAD" => obs.built = 0
        /\ obs.ret # "OTBR_ERROR_OPENTHREAD" =>
              /\ obs.ret = "OTBR_ERROR_NONE"
              /\ obs.built = nInstances
              /\ mInstance = nInstances
              /\ mThreadHelper = mInstance

\* C5 witness: an Init call has failed.
InitFailedWitness ==
    obs.op = "Init" /\ obs.ret = "OTBR_ERROR_OPENTHREAD" /\ obs.result = "OT_ERROR_FAILED"

\* C6: HandleStateChanged emits the network-name, extended-PAN-ID and
\* attachment-state events iff their flags are set, and forwards the whole
\* bitmask to the ThreadHelper exactly once, after the events.
RelayFollowsFlags ==
    obs.op = "HandleStateChanged" =>
        /\ ("kEventNetworkName" \in EmittedKinds)
              <=> ("OT_CHANGED_THREAD_NETWORK_NAME" \in obs.flags)
        /\ ("kEventExtPanId" \in EmittedKinds)
              <=> ("OT_CHANGED_THREAD_EXT_PANID" \in obs.flags)
        /\ ("kEventThreadState" \in EmittedKinds)
              <=> ("OT_CHANGED_THREAD_ROLE" \in obs.flags)
        /\ Len(obs.emitted) = Cardinality(EmittedKinds)
        /\ Len(obs.helper) = 1
        /\ obs.helper[1].call = "StateChangedCallback"
        /\ obs.helper[1].flags = obs.flags
        /\ obs.helper[1].after = Len(obs.emitted)

\* C6 witness: a bitmask with no flag of interest was delivered and forwarded.
RelayNoInterestWitness ==
    /\ obs.op = "HandleStateChanged"
    /\ obs.flags = {"OT_CHANGED_PSKC", "other"}
    /\ obs.emitted = << >>
    /\ Len(obs.helper) = 1

\* C7 (as stated): the relay re-publishes PSKc and the protocol version; on
\* the bitmask with every flag set (the one that emits whatever any bitmask
\* emits) HandleStateChanged emits the PSKc and the thread-version event.
RelayRepublishesPskcAndVersion ==
    (obs.op = "HandleStateChanged" /\ obs.flags = ChangedFlags) =>
        /\ "kEventPSKc" \in EmittedKinds
        /\ "kEventThreadVersion" \in EmittedKinds

\* C7 (amended): HandleStateChanged emits only network-name, extended-PAN-ID
\* and attachment-state events; a PSKc or thread-version event is emitted only
\* by RequestEvent with that event code.
OnlyRequestEventPublishesPskcAndVersion ==
    /\ obs.op = "HandleStateChanged" =>
          EmittedKinds \subseteq {"kEventNetworkName", "kEventExtPanId",
                                  "kEventThreadState"}
    /\ \A k \in {"kEventPSKc", "kEventThreadVersion"} :
          k \in EmittedKinds => (obs.op = "RequestEvent" /\ obs.arg = k)

\* C7 witness: the PSKc flag was delivered and no PSKc event was emitted.
RelayPskcFlagWitness ==
    /\ obs.op = "HandleStateChanged"
    /\ obs.flags = ChangedFlags
    /\ Len(obs.emitted) = 3

\* C8: an attachment-state event, from HandleStateChanged or RequestEvent,
\* carries true iff the role read is child, router or leader.
AttachedIffChildRouterLeader ==
    \A i \in 1..Len(obs.emitted) :
        obs.emitted[i].kind = "kEventThreadState" =>
            /\ obs.op \in {"HandleStateChanged", "RequestEvent"}
            /\ obs.role \in DeviceRoles
            /\ obs.emitted[i].value \in {"attached", "not attached"}
            /\ (obs.emitted[i].value = "attached") <=> (obs.role \in AttachedRoles)

\* C8 witness: RequestEvent(kEventThreadState) reported a leader as attached.
AttachedLeaderWitness ==
    /\ obs.op = "RequestEvent"
    /\ obs.role = "OT_DEVICE_ROLE_LEADER"
    /\ obs.emitted = <<Event("kEventThreadState", "attached")>>

\* C9: IsResetRequested returns true iff otPlatReset was called since the
\* most recent Reset completed; only otPlatReset sets the flag and only the
\* end of Reset, after the re-initialisation, clears it.
ResetFlagTracksPlatReset ==
    /\ [](/\ sReset = resetCalled
          /\ obs.op = "IsResetRequested" =>
                (obs.ret = "true") <=> resetCalled)
    /\ [][/\ (~sReset /\ sReset') => otPlatReset
          /\ (sReset /\ ~sReset') =>
                (pc = "reset_clear" /\ pc' = "idle" /\ mInstance = nInstances)]_vars

\* C9 witness: after a completed Reset, otPlatReset was called again and
\* IsResetRequested returned true.
ResetRequestedAgainWitness ==
    /\ obs.op = "IsResetRequested"
    /\ obs.ret = "true"
    /\ Len(finalizeCalls) >= 1

\* C10: RequestEvent with a valid code emits exactly one event, of that kind,
\* and returns OTBR_ERROR_NONE; with any other code it emits nothing and
\* reaches the assertion, returning no error value.
RequestEventEmitsItsEvent ==
    obs.op = "RequestEvent" =>
        IF obs.arg \in ValidEvents
        THEN /\ Len(obs.emitted) = 1
             /\ obs.emitted[1].kind = obs.arg
             /\ obs.ret = "OTBR_ERROR_NONE"
             /\ ~obs.asserted
        ELSE /\ obs.emitted = << >>
             /\ obs.asserted
             /\ obs.ret \in {"none", "OTBR_ERROR_NONE"}
             /\ obs.ret = "none" <=> pc = "aborted"

\* C10 witness: an invalid code reached the assertion and the process aborted.
RequestEventAbortWitness ==
    /\ obs.op = "RequestEvent"
    /\ obs.arg = "other"
    /\ obs.asserted
    /\ pc = "aborted"

\* C11 (as stated): once TryResumeNetwork has returned OT_ERROR_NONE no later
\* iteration calls it again, and it is attempted in at most one iteration.
ResumeAttemptedInOneIteration ==
    /\ ~resumeLog.afterOk
    /\ resumeLog.tries <= 1

\* C11 (amended): once TryResumeNetwork has returned OT_ERROR_NONE no later
\* iteration calls it again (also after a Reset); until then every Process
\* iteration attempts it, so an attempt that failed is repeated.
ResumeRetriedUntilSuccess ==
    /\ ~resumeLog.afterOk
    /\ mTriedAttach <=> resumeLog.ok
    /\ (obs.op = "Process" /\ obs.ret = "void" /\ obs.helper = << >>) => resumeLog.ok

\* C11 witness: a second iteration attempted the resume and succeeded, a Reset
\* has run, and the last iteration made no attempt.
ResumeRetriedWitness ==
    /\ resumeLog.tries = 2
    /\ resumeLog.ok
    /\ Len(finalizeCalls) >= 1
    /\ obs.op = "Process" /\ obs.ret = "void" /\ obs.helper = << >>

\* C12: PostTimerTask adds exactly one entry and keeps every queued entry; an
\* entry leaves the queue only as the entry being fired by Process, due at or
\* before that iteration's `now`; no other step changes the queue.
TimerQueueChangesOnlyByPostAndFire ==
    [][/\ nPosts' = nPosts + 1 =>
             /\ Len(mTimers') = Len(mTimers) + 1
             /\ TimerIds \subseteq TimerIds'
       /\ \A i \in 1..Len(mTimers) :
             mTimers[i].id \notin TimerIds' =>
                 /\ pc = "callback"
                 /\ mTimers[i].id = firing
                 /\ mTimers[i].due <= pNow
       /\ (nPosts' = nPosts /\ ~(pc = "callback" /\ pc' = "timers")) =>
             mTimers' = mTimers]_vars

\* C13: every Process iteration terminates, also when the timer callbacks it
\* fires post new timers: an iteration that was started returns.
ProcessTerminates ==
    (pc = "tasklets") ~> (pc = "idle")

\* C14: over construct, Init, Reset, destroy (also destroy without Init) at
\* most one instance is live, otInstanceFinalize is called only on the instance
\* created last and still live, every instance is finalized exactly once, and
\* every otSysInit is paired with one later otSysDeinit.
InstanceLifecyclePaired ==
    /\ \A i \in 1..Len(finalizeCalls) : finalizeCalls[i] = i
    /\ Len(finalizeCalls) <= nInstances
    /\ nInstances - Len(finalizeCalls) <= 1
    /\ nDeinits <= nInstances
    /\ nInstances - nDeinits <= 1
    /\ liveInstance # 0 => (liveInstance = nInstances /\ Len(finalizeCalls) = nInstances - 1)
    /\ pc = "destroyed" => (Len(finalizeCalls) = nInstances /\ nDeinits = nInstances)

\* C15: while the host loop keeps running and the clock keeps advancing, the
\* callback of every posted timer is eventually invoked.
EveryPostedTimerFires ==
    \A id \in 1..MaxPosts : (nPosts >= id) ~> (timesInvoked[id] >= 1)

\* The position of a step in the body of Process.
StepRank(step) ==
    CASE step = "otTaskletsProcess"    -> 1
      [] step = "otSysMainloopProcess" -> 2
      [] step = "timer callback"       -> 3
      [] step = "TryResumeNetwork"     -> 4

\* C16: the steps of a Process iteration happen in the order tasklets, mainloop
\* processing, timer callbacks, resume attempt; the tasklet step, the mainloop
\* step and the resume attempt happen at most once; no timer callback runs
\* before the mainloop processing and the resume attempt is the last step.
\* (Consecutive timer callbacks are one entry of stepLog.)
ProcessStepsInOrder ==
    /\ \A i, j \in 1..Len(stepLog) :
          i < j => StepRank(stepLog[i]) < StepRank(stepLog[j])
    /\ Len(stepLog) >= 1 => stepLog[1] = "otTaskletsProcess"
    /\ Len(stepLog) >= 2 => stepLog[2] = "otSysMainloopProcess"
    /\ pc \in {"timers", "callback", "resume"} =>
          /\ Len(stepLog) >= 2
          /\ stepLog[Len(stepLog)] # "TryResumeNetwork"
    /\ pc = "callback" => stepLog[Len(stepLog)] = "timer callback"
    /\ (obs.op = "Process" /\ obs.ret = "void") =>
          (obs.helper # << >> <=> stepLog[Len(stepLog)] = "TryResumeNetwork")

\* C16 witness: an iteration that fired a timer and attempted the resume has returned.
ProcessAllStepsWitness ==
    /\ pc = "idle"
    /\ stepLog = <<"otTaskletsProcess", "otSysMainloopProcess", "timer callback",
                   "TryResumeNetwork">>

\* C17: once Init has returned, at startup or inside Reset, the adapter holds
\* a ThreadHelper and it is bound to the live library instance; every call
\* Process or HandleStateChanged makes on the helper reaches a helper bound to
\* the live instance.
HelperBoundToLiveInstance ==
    /\ pc \notin {"constructed", "reset_init", "destroyed", "aborted"} =>
          /\ mThreadHelper # 0
          /\ mThreadHelper = liveInstance
    /\ \A k \in 1..Len(obs.helper) :
          /\ obs.helper[k].inst # 0
          /\ obs.helper[k].inst = liveInstance

\* An otPlatReset call is pending while no Reset that started after it has
\* completed.
ResetRequestPending ==
    resetReq.outside \/ resetReq.during \/ resetReq.carried

\* C18 as stated: while an otPlatReset call is pending, whether it was made
\* outside of Reset or while a Reset was in progress, the flag is set and
\* IsResetRequested returns true.
ResetRequestNeverLost ==
    /\ ResetRequestPending => sReset
    /\ (obs.op = "IsResetRequested" /\ ResetRequestPending) => obs.ret = "true"

\* C18 amended: an otPlatReset call made while no Reset is in progress keeps
\* the flag set, and IsResetRequested true, until the next Reset completes; a
\* call made while a Reset is in progress keeps it set only until that Reset
\* completes, which clears it.
ResetRequestKeptUntilResetCompletes ==
    /\ (resetReq.outside \/ resetReq.during) => sReset
    /\ (obs.op = "IsResetRequested" /\ resetReq.outside) => obs.ret = "true"
    /\ (resetReq.carried /\ ~resetReq.outside /\ ~resetReq.during) => ~sReset
    /\ (obs.op = "IsResetRequested" /\ resetReq.carried /\ ~resetReq.outside) =>
          obs.ret = "false"

\* C18 witness: otPlatReset was called while a Reset was in progress, that
\* Reset completed, and IsResetRequested then returned false.
ResetRequestDuringResetWitness ==
    /\ obs.op = "IsResetRequested"
    /\ obs.ret = "false"
    /\ resetReq.carried

\* C19: the configuration is the one the constructor built (reset-radio flag
\* true, speed-up factor 1) and no operation changes it; every Init, at
\* startup or inside Reset, hands that configuration to otSysInit; no step of
\* Reset changes mTriedAttach, and no resume is attempted after one succeeded.
ConfigurationFixed ==
    /\ [](/\ mConfig \in {Constructor(args.aInterfaceName, args.aRadioFile,
                                      args.aRadioConfig) : args \in ConstructorArgs}
          /\ mConfig.mResetRadio = TRUE
          /\ mConfig.mSpeedUpFactor = 1
          /\ obs.op = "Init" => obs.config = mConfig
          /\ ~resumeLog.afterOk)
    /\ [][/\ mConfig' = mConfig
          /\ (pc \in {"reset_init", "reset_clear"} \/ pc' \in {"reset_init", "reset_clear"})
                => mTriedAttach' = mTriedAttach]_vars

\* C19 witness: a Reset that started after a successful resume has
\* re-initialised the library with the constructor's configuration.
ResetReusesConfigurationWitness ==
    /\ pc = "reset_clear"
    /\ mTriedAttach
    /\ obs.op = "Init"
    /\ obs.config = mConfig
    /\ Len(finalizeCalls) >= 1

====
